---- MODULE Spec2Model ----
(***************************************************************************)
(* Labyrinth raycaster (src/main.py): tile grid, collision-aware motion,   *)
(* A* pursuit, raycast depth buffer, depth-tested sprite compositing and   *)
(* the ALIVE/DEAD/WON session loop.                                        *)
(*                                                                         *)
(* Numbers.  The program computes in floats; the model computes in fixed   *)
(* point with ONE = 1000 units per tile (and per second: delta_time is an  *)
(* integer number of milliseconds, clock.tick(60) / 1000.0).  Products and *)
(* quotients are truncated toward zero.  float("inf") is the value INF.    *)
(***************************************************************************)
EXTENDS Integers, Sequences, FiniteSets, TLC

VARIABLES
    player,           \* Player: x, y, dir_x, dir_y, plane_x, plane_y
    monsters,         \* list of Monster: x, y, path, path_cooldown
    collected,        \* tiles of the pellets whose collected flag is set
    collected_count,  \* main(): collected_count
    alive,            \* main(): alive
    won,              \* main(): won
    keys,             \* main(): keys, the keys held down in the current frame
    delta_time,       \* main(): delta_time of the current frame, in ms
    depth_buffer,     \* main(): depth_buffer, the list cast_rays returned
    blits,            \* the sprite columns blitted onto the current frame
    pc,               \* position in the body of main()'s loop
    ticks,            \* history: simulation ticks of the current session
    since_search,     \* history, per monster: ms since its last astar_path
    search_gap,       \* history, per monster: ms between its last two
                      \* astar_path calls if the last tick made one, else -1
    probe             \* arguments and result of a function run on its own

vars == << player, monsters, collected, collected_count, alive, won, keys,
           delta_time, depth_buffer, blits, pc, ticks, since_search,
           search_gap, probe >>

game_vars == << player, monsters, collected, collected_count, alive, won,
                keys, delta_time, depth_buffer, blits, pc, ticks,
                since_search, search_gap >>

----------------------------------------------------------------------------
(* Fixed point *)

ONE == 1000

INF == 2000000000

Abs(a) == IF a < 0 THEN -a ELSE a

Max(a, b) == IF a > b THEN a ELSE b

Min(a, b) == IF a < b THEN a ELSE b

\* int(a / b) of Python for b > 0: the quotient truncated toward zero.
Trunc(a, b) == IF a >= 0 THEN a \div b ELSE -((-a) \div b)

\* Truncating quotient for any non-zero divisor.
Quot(a, b) == IF b > 0 THEN Trunc(a, b) ELSE Trunc(-a, -b)

FMul(a, b) == Trunc(a * b, ONE)

FDiv(a, b) == Quot(a * ONE, b)

RECURSIVE IsqrtIter(_, _, _)
IsqrtIter(n, lo, hi) ==
    IF lo >= hi THEN lo
    ELSE LET mid == (lo + hi + 1) \div 2
         IN  IF mid * mid <= n THEN IsqrtIter(n, mid, hi)
             ELSE IsqrtIter(n, lo, mid - 1)

\* A function on 1..n as the list of its values, every entry evaluated.
AsList(f) == << >> @@ f

\* math.hypot on fixed-point arguments: floor of the square root.
Hypot(a, b) == IsqrtIter(a * a + b * b, 0, 46000)

----------------------------------------------------------------------------
(* TileGrid *)

MAP_LAYOUT ==
    << <<1,1,1,1,1,1,1,1,1,1,1,1,1,1,1,1,1,1,1,1,1>>,
       <<1,0,0,0,0,0,0,0,0,0,0,0,0,0,0,0,0,0,0,0,1>>,
       <<1,0,1,1,1,1,1,0,1,1,1,1,1,1,1,0,1,1,1,0,1>>,
       <<1,0,1,0,0,0,1,0,1,0,0,0,0,0,1,0,1,0,0,0,1>>,
       <<1,0,1,0,1,0,1,0,1,0,1,1,1,0,1,0,1,1,1,0,1>>,
       <<1,0,1,0,1,0,0,0,1,0,1,0,0,0,1,0,0,0,1,0,1>>,
       <<1,0,1,0,1,1,1,1,1,0,1,0,1,1,1,1,1,0,1,0,1>>,
       <<1,0,1,0,0,0,0,0,1,0,1,0,0,0,0,0,1,0,1,0,1>>,
       <<1,0,1,1,1,1,1,0,1,0,1,1,1,1,1,0,1,0,1,0,1>>,
       <<1,0,1,0,0,0,1,0,1,0,0,0,0,0,1,0,1,0,1,0,1>>,
       <<1,0,1,0,1,0,1,0,1,1,1,1,1,0,1,0,1,1,1,0,1>>,
       <<1,0,1,0,1,0,0,0,1,0,0,0,1,0,1,0,0,0,1,0,1>>,
       <<1,0,1,0,1,1,1,1,1,0,1,0,1,0,1,1,1,0,1,0,1>>,
       <<1,0,1,0,0,0,0,0,0,0,1,0,1,0,0,0,1,0,0,0,1>>,
       <<1,0,1,1,1,1,1,1,1,1,1,0,1,1,1,0,1,1,1,0,1>>,
       <<1,0,1,0,0,0,0,0,0,0,0,0,0,0,1,0,1,0,0,0,1>>,
       <<1,0,1,0,1,1,1,1,1,1,1,1,1,0,1,0,1,1,1,0,1>>,
       <<1,0,0,0,1,0,0,0,0,0,0,0,0,0,1,0,0,0,0,0,1>>,
       <<1,1,1,1,1,1,1,1,1,1,1,1,1,1,1,1,1,1,1,1,1>> >>

WORLD_MAP == MAP_LAYOUT

MAP_WIDTH == Len(WORLD_MAP[1])

MAP_HEIGHT == Len(WORLD_MAP)

\* WORLD_MAP[tile_y][tile_x], with the 0-based indices of the source.
Tile(tile_x, tile_y) == WORLD_MAP[tile_y + 1][tile_x + 1]

\* int(x) of a fixed-point coordinate: the cell index.
CellOf(x) == Trunc(x, ONE)

is_blocking(x, y) ==
    IF x < 0 \/ y < 0 \/ x >= MAP_WIDTH * ONE \/ y >= MAP_HEIGHT * ONE
    THEN TRUE
    ELSE Tile(CellOf(x), CellOf(y)) # 0

grid_blocked(tile_x, tile_y) ==
    IF tile_x < 0 \/ tile_y < 0 \/ tile_x >= MAP_WIDTH \/ tile_y >= MAP_HEIGHT
    THEN TRUE
    ELSE Tile(tile_x, tile_y) # 0

----------------------------------------------------------------------------
(* MotionSystem *)

\* Mutant: a move whose destination is blocking is dropped on both axes.
move_entity_sticking(x, y, move_x, move_y) ==
    IF is_blocking(x + move_x, y + move_y)
    THEN << x, y >>
    ELSE << x + move_x, y + move_y >>

\* Mutant: the x axis is applied without the blocking test.
move_entity_x_unchecked(x, y, move_x, move_y) ==
    LET new_x == x + move_x
        new_y == y + move_y
        y1 == IF ~is_blocking(new_x, new_y) THEN new_y ELSE y
    IN  << new_x, y1 >>

move_entity(x, y, move_x, move_y) ==
    LET new_x == x + move_x
        new_y == y + move_y
        x1 == IF ~is_blocking(new_x, y) THEN new_x ELSE x
        y1 == IF ~is_blocking(x1, new_y) THEN new_y ELSE y
    IN  << x1, y1 >>

----------------------------------------------------------------------------
(* PathPlanner *)

\* Mutant: a heuristic that overestimates (three times the Manhattan distance).
heuristic_overestimate(a, b) == 3 * (Abs(a[1] - b[1]) + Abs(a[2] - b[2]))

heuristic(a, b) == Abs(a[1] - b[1]) + Abs(a[2] - b[2])

\* The order of the heap entries (priority, (x, y)): Python's tuple order.
HeapLess(e, f) ==
    \/ e[1] < f[1]
    \/ e[1] = f[1] /\ e[2][1] < f[2][1]
    \/ e[1] = f[1] /\ e[2][1] = f[2][1] /\ e[2][2] < f[2][2]

\* heapq.heappop: the least entry.  An entry is pushed only with a g-score
\* strictly below the cell's previous one, so no entry is pushed twice and
\* the heap is the set of its entries.
HeapMin(open_heap) ==
    CHOOSE e \in open_heap : \A f \in open_heap : f = e \/ HeapLess(e, f)

Neighbors(c) ==
    << <<c[1] + 1, c[2]>>, <<c[1] - 1, c[2]>>,
       <<c[1], c[2] + 1>>, <<c[1], c[2] - 1>> >>

\* The walk back over came_from, then path.reverse().
RECURSIVE ReconstructPath(_, _, _)
ReconstructPath(came_from, current, path) ==
    IF current \in DOMAIN came_from
    THEN ReconstructPath(came_from, came_from[current],
                         << came_from[current] >> \o path)
    ELSE path

\* Mutant: the neighbour is relaxed without the grid_blocked test.
Relax_through_walls(st, current, neighbor, goal) ==
    LET tentative_g == st.g[current] + 1
    IN  IF neighbor \notin DOMAIN st.g \/ tentative_g < st.g[neighbor]
        THEN [ ret |-> st.ret,
               heap |-> st.heap \cup
                   { << tentative_g + heuristic(neighbor, goal), neighbor >> },
               came |-> (neighbor :> current) @@ st.came,
               g |-> (neighbor :> tentative_g) @@ st.g ]
        ELSE st

\* One neighbour of the inner for loop; st = [ret, heap, came, g].
Relax(st, current, neighbor, goal) ==
    IF grid_blocked(neighbor[1], neighbor[2]) THEN st
    ELSE LET tentative_g == st.g[current] + 1
         IN  IF neighbor \notin DOMAIN st.g \/ tentative_g < st.g[neighbor]
             THEN [ ret |-> st.ret,
                    heap |-> st.heap \cup
                        { << tentative_g + heuristic(neighbor, goal),
                             neighbor >> },
                    came |-> (neighbor :> current) @@ st.came,
                    g |-> (neighbor :> tentative_g) @@ st.g ]
             ELSE st

\* One iteration of "while open_heap": pop, return at the goal, else relax
\* the four neighbours.  st.ret is None (<<"none">>) until the function returns.
AstarStep(st, goal) ==
    IF st.heap = {} THEN [ st EXCEPT !.ret = << "path", << >> >> ]
    ELSE LET e == HeapMin(st.heap)
             current == e[2]
             popped == [ st EXCEPT !.heap = st.heap \ {e} ]
             nb == Neighbors(current)
         IN  IF current = goal
             THEN [ popped EXCEPT !.ret =
                      << "path",
                         ReconstructPath(st.came, current, << current >>) >> ]
             ELSE Relax(Relax(Relax(Relax(popped, current, nb[1], goal),
                                    current, nb[2], goal),
                              current, nb[3], goal),
                        current, nb[4], goal)

\* n iterations of the loop, or fewer if it returns (evaluated by halves to
\* keep the evaluator's stack shallow).
RECURSIVE AstarIterate(_, _, _)
AstarIterate(st, goal, n) ==
    IF st.ret[1] = "path" THEN st
    ELSE IF n <= 1 THEN AstarStep(st, goal)
    ELSE AstarIterate(AstarIterate(st, goal, n \div 2), goal, n - n \div 2)

RECURSIVE AstarLoop(_, _)
AstarLoop(st, goal) ==
    LET r == AstarIterate(st, goal, 64)
    IN  IF r.ret[1] = "path" THEN r.ret[2] ELSE AstarLoop(r, goal)

astar_path(start, goal) ==
    IF start = goal THEN << start >>
    ELSE IF grid_blocked(goal[1], goal[2]) THEN << >>
    ELSE AstarLoop([ heap |-> { << 0, start >> },
                     came |-> << >>,
                     g |-> (start :> 0),
                     ret |-> << "none" >> ],
                   goal)

----------------------------------------------------------------------------
(* Entities *)

spawn_player ==
    [ x |-> 3500, y |-> 3500, dir_x |-> -1000, dir_y |-> 0,
      plane_x |-> 0, plane_y |-> 660 ]

MONSTER_SPAWNS == << << 15500, 9500 >> >>

Monster(x, y) == [ x |-> x, y |-> y, path |-> << >>, path_cooldown |-> 0 ]

spawn_monsters ==
    AsList([ i \in 1..Len(MONSTER_SPAWNS) |->
               Monster(MONSTER_SPAWNS[i][1], MONSTER_SPAWNS[i][2]) ])

\* One pellet per open tile, at the tile centre; a pellet is named by its tile.
spawn_pellets ==
    { << tx, ty >> \in (0..(MAP_WIDTH - 1)) \X (0..(MAP_HEIGHT - 1)) :
        Tile(tx, ty) = 0 }

PelletX(p) == p[1] * ONE + ONE \div 2

PelletY(p) == p[2] * ONE + ONE \div 2

----------------------------------------------------------------------------
(* Simulation *)

move_player(p, move_x, move_y) ==
    LET r == move_entity(p.x, p.y, move_x, move_y)
    IN  [ p EXCEPT !.x = r[1], !.y = r[2] ]

\* math.cos and math.sin of an angle in milliradians, in thousandths, for the
\* angles rot_speed takes: 1.8 * delta_time, delta_time in DeltaTimes.
TrigTable == (450 :> << 900, 435 >>) @@ (1571 :> << 0, 1000 >>)

Cos(angle) == TrigTable[Abs(angle)][1]

Sin(angle) == IF angle < 0 THEN -TrigTable[-angle][2] ELSE TrigTable[angle][2]

rotate_player(p, angle) ==
    LET cos_a == Cos(angle)
        sin_a == Sin(angle)
    IN  [ p EXCEPT
            !.dir_x = FMul(p.dir_x, cos_a) - FMul(p.dir_y, sin_a),
            !.dir_y = FMul(p.dir_x, sin_a) + FMul(p.dir_y, cos_a),
            !.plane_x = FMul(p.plane_x, cos_a) - FMul(p.plane_y, sin_a),
            !.plane_y = FMul(p.plane_x, sin_a) + FMul(p.plane_y, cos_a) ]

MOVE_SPEED == 3000

ROT_SPEED == 1800

\* The key tests of main(), one operator each, on the player so far.
KeyW(p, ks, move_speed) ==
    IF "w" \in ks
    THEN move_player(p, FMul(p.dir_x, move_speed), FMul(p.dir_y, move_speed))
    ELSE p

KeyS(p, ks, move_speed) ==
    IF "s" \in ks
    THEN move_player(p, FMul(-p.dir_x, move_speed), FMul(-p.dir_y, move_speed))
    ELSE p

KeyQ(p, ks, move_speed) ==
    IF "q" \in ks
    THEN move_player(p, FMul(-p.plane_x, move_speed),
                     FMul(-p.plane_y, move_speed))
    ELSE p

KeyE(p, ks, move_speed) ==
    IF "e" \in ks
    THEN move_player(p, FMul(p.plane_x, move_speed),
                     FMul(p.plane_y, move_speed))
    ELSE p

KeyA(p, ks, rot_speed) == IF "a" \in ks THEN rotate_player(p, rot_speed) ELSE p

KeyD(p, ks, rot_speed) == IF "d" \in ks THEN rotate_player(p, -rot_speed) ELSE p

\* The tests in their order: W, S, Q, E move, then A, D turn.
ApplyKeys(p, ks, dt) ==
    KeyD(KeyA(KeyE(KeyQ(KeyS(KeyW(p, ks, FMul(MOVE_SPEED, dt)),
                             ks, FMul(MOVE_SPEED, dt)),
                        ks, FMul(MOVE_SPEED, dt)),
                   ks, FMul(MOVE_SPEED, dt)),
              ks, FMul(ROT_SPEED, dt)),
         ks, FMul(ROT_SPEED, dt))

MONSTER_SPEED == 1200

PATH_COOLDOWN == 400

WAYPOINT_REACH == 100

MIN_DISTANCE == 1

Last(path) == path[Len(path)]

InPath(tile, path) == \E i \in 1..Len(path) : path[i] = tile

\* Mutant: a search in every tick.
NeedsPath_always(path_cooldown, path, monster_tile, goal_tile) == TRUE

\* Mutant: needs_path without the test of the path's last cell.
NeedsPath_ignoring_goal(path_cooldown, path, monster_tile, goal_tile) ==
    \/ path_cooldown <= 0
    \/ path = << >>
    \/ ~InPath(monster_tile, path)

\* needs_path, with path_cooldown already decremented.
NeedsPath(path_cooldown, path, monster_tile, goal_tile) ==
    \/ path_cooldown <= 0
    \/ path = << >>
    \/ Last(path) # goal_tile
    \/ ~InPath(monster_tile, path)

TileCenter(c) == c * ONE + ONE \div 2

\* The replanning step: the path and cooldown after it, and whether it
\* called astar_path.
Replan(monster, monster_tile, goal_tile, path_cooldown) ==
    IF NeedsPath(path_cooldown, monster.path, monster_tile, goal_tile)
    THEN [ path |-> astar_path(monster_tile, goal_tile),
           path_cooldown |-> PATH_COOLDOWN,
           searched |-> TRUE ]
    ELSE [ path |-> monster.path,
           path_cooldown |-> path_cooldown,
           searched |-> FALSE ]

\* "Drop waypoint if we already moved into it": the path after the pop.
DropWaypoint(path, x, y) ==
    IF /\ Len(path) > 1
       /\ Abs(x - TileCenter(path[2][1])) < WAYPOINT_REACH
       /\ Abs(y - TileCenter(path[2][2])) < WAYPOINT_REACH
    THEN Tail(path)
    ELSE path

\* target_x, target_y: the next waypoint's centre, else the player.
Target(planned, path, p) ==
    IF Len(planned) > 1 /\ Len(path) > 1
    THEN << TileCenter(path[2][1]), TileCenter(path[2][2]) >>
    ELSE << p.x, p.y >>

\* dir_x, dir_y divided by the distance when it exceeds 0.001.
Heading(dir_x, dir_y, distance) ==
    IF distance > MIN_DISTANCE
    THEN << FDiv(dir_x, distance), FDiv(dir_y, distance) >>
    ELSE << dir_x, dir_y >>

\* The move toward the target: the position move_entity returns.
Chase(x, y, target, dt) ==
    move_entity(
        x, y,
        FMul(FMul(Heading(target[1] - x, target[2] - y,
                          Hypot(target[1] - x, target[2] - y))[1],
                  MONSTER_SPEED), dt),
        FMul(FMul(Heading(target[1] - x, target[2] - y,
                          Hypot(target[1] - x, target[2] - y))[2],
                  MONSTER_SPEED), dt))

MonsterAfter(monster, plan, path, pos) ==
    [ monster |-> [ x |-> pos[1], y |-> pos[2], path |-> path,
                    path_cooldown |-> plan.path_cooldown ],
      searched |-> plan.searched ]

Follow(monster, p, dt, plan, path) ==
    MonsterAfter(monster, plan, path,
                 Chase(monster.x, monster.y, Target(plan.path, path, p), dt))

Pursue(monster, p, dt, plan) ==
    Follow(monster, p, dt, plan, DropWaypoint(plan.path, monster.x, monster.y))

\* One iteration of the loop of update_monsters: the monster after the tick,
\* and whether the tick called astar_path.
update_monster(monster, p, dt) ==
    Pursue(monster, p, dt,
           Replan(monster,
                  << CellOf(monster.x), CellOf(monster.y) >>,
                  << CellOf(p.x), CellOf(p.y) >>,
                  monster.path_cooldown - dt))

\* The loop over the monsters: per monster, its update_monster record.
update_monsters(ms, p, dt) ==
    AsList([ i \in 1..Len(ms) |-> update_monster(ms[i], p, dt) ])

\* math.hypot(dx, dy) < radius, for radius >= 0.
HypotLess(dx, dy, radius) == dx * dx + dy * dy < radius * radius

PELLET_RADIUS == 350

\* Mutant: a pellet is flagged when the player stands anywhere in its tile.
collect_pellets_in_tile(p, col) ==
    { pellet \in spawn_pellets \ col :
        pellet = << CellOf(p.x), CellOf(p.y) >> }

\* The pellets collect_pellets flags in this call.
collect_pellets(p, col) ==
    { pellet \in spawn_pellets \ col :
        HypotLess(p.x - PelletX(pellet), p.y - PelletY(pellet),
                  PELLET_RADIUS) }

DEATH_RADIUS == 400

player_is_dead(p, ms) ==
    \E i \in 1..Len(ms) :
        HypotLess(p.x - ms[i].x, p.y - ms[i].y, DEATH_RADIUS)

----------------------------------------------------------------------------
(* Raycaster *)

\* The model's screen: SCREEN_WIDTH columns and SCREEN_HEIGHT rows.
SCREEN_WIDTH == 12

SCREEN_HEIGHT == 8

MIN_WALL_DIST == 1

\* a * b and a + b where a or b may be float("inf"); a > 0 and b > 0.
InfMul(a, b) == IF a = INF \/ b = INF THEN INF ELSE FMul(a, b)

InfAdd(a, b) == IF a = INF \/ b = INF THEN INF ELSE a + b

\* One iteration of "while not hit and steps < max_steps".
DdaStep(st) ==
    LET step_x_axis == st.side_dist_x < st.side_dist_y
        map_x == IF step_x_axis THEN st.map_x + st.step_x ELSE st.map_x
        map_y == IF step_x_axis THEN st.map_y ELSE st.map_y + st.step_y
        outside == map_x < 0 \/ map_x >= MAP_WIDTH
                   \/ map_y < 0 \/ map_y >= MAP_HEIGHT
    IN  [ st EXCEPT
            !.steps = st.steps + 1,
            !.side_dist_x = IF step_x_axis
                            THEN InfAdd(st.side_dist_x, st.delta_dist_x)
                            ELSE st.side_dist_x,
            !.side_dist_y = IF step_x_axis THEN st.side_dist_y
                            ELSE InfAdd(st.side_dist_y, st.delta_dist_y),
            !.map_x = map_x,
            !.map_y = map_y,
            !.side = IF step_x_axis THEN 0 ELSE 1,
            !.hit = outside \/ Tile(map_x, map_y) # 0,
            !.tile = IF outside THEN 1
                     ELSE IF Tile(map_x, map_y) # 0 THEN Tile(map_x, map_y)
                     ELSE st.tile ]

RECURSIVE DdaLoop(_)
DdaLoop(st) ==
    IF ~st.hit /\ st.steps < st.max_steps THEN DdaLoop(DdaStep(st)) ELSE st

\* The ray of one screen column, traversed: the loop's variables at its end.
CastColumn(p, column) ==
    LET camera_x == Trunc(2 * ONE * column, SCREEN_WIDTH) - ONE
        ray_dir_x == p.dir_x + FMul(p.plane_x, camera_x)
        ray_dir_y == p.dir_y + FMul(p.plane_y, camera_x)
        map_x == CellOf(p.x)
        map_y == CellOf(p.y)
        delta_dist_x == IF ray_dir_x # 0 THEN Abs(FDiv(ONE, ray_dir_x)) ELSE INF
        delta_dist_y == IF ray_dir_y # 0 THEN Abs(FDiv(ONE, ray_dir_y)) ELSE INF
    IN  DdaLoop(
          [ map_x |-> map_x,
            map_y |-> map_y,
            delta_dist_x |-> delta_dist_x,
            delta_dist_y |-> delta_dist_y,
            step_x |-> IF ray_dir_x < 0 THEN -1 ELSE 1,
            step_y |-> IF ray_dir_y < 0 THEN -1 ELSE 1,
            side_dist_x |-> IF ray_dir_x < 0
                            THEN FMul(p.x - map_x * ONE, delta_dist_x)
                            ELSE InfMul((map_x + 1) * ONE - p.x, delta_dist_x),
            side_dist_y |-> IF ray_dir_y < 0
                            THEN FMul(p.y - map_y * ONE, delta_dist_y)
                            ELSE InfMul((map_y + 1) * ONE - p.y, delta_dist_y),
            hit |-> FALSE,
            side |-> 0,
            tile |-> 1,
            max_steps |-> MAP_WIDTH * MAP_HEIGHT,
            steps |-> 0 ])

\* Mutant: the perpendicular distance is stored without the clamp.
ColumnDepth_unclamped(p, column) ==
    LET st == CastColumn(p, column)
    IN  IF ~st.hit THEN INF
        ELSE IF st.side = 0 THEN st.side_dist_x - st.delta_dist_x
        ELSE st.side_dist_y - st.delta_dist_y

\* depth_buffer[column] when cast_rays returns: the clamped perpendicular
\* distance, or the initial float("inf") when the loop ended without a hit.
ColumnDepth(p, column) ==
    LET st == CastColumn(p, column)
        perp_wall_dist == IF st.side = 0
                          THEN st.side_dist_x - st.delta_dist_x
                          ELSE st.side_dist_y - st.delta_dist_y
    IN  IF ~st.hit THEN INF ELSE Max(perp_wall_dist, MIN_WALL_DIST)

\* The list cast_rays returns; column c of the source is entry c + 1.
cast_rays(p) == AsList([ c \in 1..SCREEN_WIDTH |-> ColumnDepth(p, c - 1) ])

----------------------------------------------------------------------------
(* SpriteCompositor *)

\* transform_x and transform_y of a sprite at (wx, wy); det is not 0.
Project(p, wx, wy) ==
    LET det == FMul(p.plane_x, p.dir_y) - FMul(p.dir_x, p.plane_y)
        inv_det == FDiv(ONE, det)
        sprite_x == wx - p.x
        sprite_y == wy - p.y
    IN  [ transform_x |-> FMul(inv_det, FMul(p.dir_y, sprite_x)
                                        - FMul(p.dir_x, sprite_y)),
          transform_y |-> FMul(inv_det, FMul(-p.plane_y, sprite_x)
                                        + FMul(p.plane_x, sprite_y)) ]

Determinant(p) == FMul(p.plane_x, p.dir_y) - FMul(p.dir_x, p.plane_y)

\* Mutant: the stripe test without the depth comparison.
StripeVisible_no_depth(stripe, tex_x, sprite_width, depth_buf, transform_y) ==
    /\ 0 <= stripe /\ stripe < SCREEN_WIDTH
    /\ 0 <= tex_x /\ tex_x < sprite_width

\* The test of one stripe before screen.blit.
StripeVisible(stripe, tex_x, sprite_width, depth_buf, transform_y) ==
    /\ 0 <= stripe /\ stripe < SCREEN_WIDTH
    /\ 0 <= tex_x /\ tex_x < sprite_width
    /\ depth_buf[stripe + 1] > transform_y

\* The stripes blitted for one sprite of the given size (thousandths of the
\* full billboard height): the loop body from "if transform_y <= 0" on.
SpriteStripes(tr, size, depth_buf) ==
    IF tr.transform_y <= 0 THEN {}
    ELSE
    LET sprite_screen_x ==
            Trunc(SCREEN_WIDTH * (ONE + FDiv(tr.transform_x, tr.transform_y)),
                  2 * ONE)
        sprite_height == Max(1, Abs(Trunc(SCREEN_HEIGHT * size,
                                          tr.transform_y)))
        sprite_width == Max(1, sprite_height)
        draw_start_y == Max(((-sprite_height) \div 2) + SCREEN_HEIGHT \div 2, 0)
        draw_end_y == Min((sprite_height \div 2) + SCREEN_HEIGHT \div 2,
                          SCREEN_HEIGHT - 1)
        draw_start_x == Max(((-sprite_width) \div 2) + sprite_screen_x, 0)
        draw_end_x == Min((sprite_width \div 2) + sprite_screen_x,
                          SCREEN_WIDTH - 1)
        sprite_left == ((-sprite_width) \div 2) + sprite_screen_x
    IN  IF draw_start_x >= draw_end_x \/ draw_start_y >= draw_end_y THEN {}
        ELSE { stripe \in draw_start_x..(draw_end_x - 1) :
                 StripeVisible(stripe, stripe - sprite_left, sprite_width,
                               depth_buf, tr.transform_y) }

MONSTER_SIZE == 1000

PELLET_SIZE == 350

Blit(kind, id, stripe, tr) ==
    [ kind |-> kind, id |-> id, stripe |-> stripe, depth |-> tr.transform_y ]

\* The columns draw_monsters blits.
draw_monsters(p, ms, depth_buf) ==
    IF Determinant(p) = 0 THEN {}
    ELSE UNION { LET tr == Project(p, ms[i].x, ms[i].y)
                 IN  { Blit("monster", i, stripe, tr) :
                         stripe \in SpriteStripes(tr, MONSTER_SIZE, depth_buf) } :
                 i \in 1..Len(ms) }

\* The columns draw_collectibles blits.
draw_collectibles(p, col, depth_buf) ==
    IF Determinant(p) = 0 THEN {}
    ELSE UNION { LET tr == Project(p, PelletX(pellet), PelletY(pellet))
                 IN  { Blit("pellet", pellet, stripe, tr) :
                         stripe \in SpriteStripes(tr, PELLET_SIZE, depth_buf) } :
                 pellet \in spawn_pellets \ col }

----------------------------------------------------------------------------
(* The session loop: main() *)

Keys == { "w", "s", "q", "e", "a", "d", "r" }

\* The inputs of one frame: at most one key held.
KeySets == { {} } \cup { {k} : k \in Keys }

\* The frame times in ms: of a frame in which the player gives input, and of
\* the longer frames after that.
DeltaTimes == << 250, 873 >>

InputMs == DeltaTimes[1]

FrameMs == DeltaTimes[2]

\* The player gives input in the first MaxInputTicks ticks of a session and
\* then stands still at a steady frame rate; a session has at most MaxTicks
\* ticks.
MaxInputTicks == 2

MaxTicks == 45

\* Mutant: the loop tests "not won" only.
Running_ignoring_death(a, w) == ~w

Running(a, w) == a /\ ~w

WinTarget == Max(1, (Cardinality(spawn_pellets) + 1) \div 2)

NoSearch == AsList([ i \in 1..Len(MONSTER_SPAWNS) |-> -1 ])

GameInit ==
    /\ player = spawn_player
    /\ monsters = spawn_monsters
    /\ collected = {}
    /\ collected_count = 0
    /\ alive = TRUE
    /\ won = FALSE
    /\ keys = {}
    /\ delta_time = 0
    /\ depth_buffer = << >>
    /\ blits = {}
    /\ pc = "update"
    /\ ticks = 0
    /\ since_search = NoSearch
    /\ search_gap = NoSearch

\* Mutant: the sprites are composited before the frame's rays are cast.
NextPc_sprites_first(at) ==
    CASE at = "update" -> "draw_collectibles"
      [] at = "draw_collectibles" -> "draw_monsters"
      [] at = "draw_monsters" -> "cast_rays"
      [] at = "cast_rays" -> "update"

\* The order of the calls in the loop body.
NextPc(at) ==
    CASE at = "update" -> "cast_rays"
      [] at = "cast_rays" -> "draw_collectibles"
      [] at = "draw_collectibles" -> "draw_monsters"
      [] at = "draw_monsters" -> "update"

\* The body of "if alive and not won" for the keys ks and the frame time dt:
\* the keys, update_monsters, player_is_dead, collect_pellets, the win test.
Frame(ks, dt) ==
    /\ \E p1 \in { ApplyKeys(player, ks, dt) } :
       \E upd \in { update_monsters(monsters, p1, dt) } :
       \E newly \in { collect_pellets(p1, collected) } :
       LET ms1 == AsList([ i \in 1..Len(upd) |-> upd[i].monster ])
           count1 == collected_count + Cardinality(newly)
       IN  /\ keys' = ks
           /\ delta_time' = dt
           /\ player' = p1
           /\ monsters' = ms1
           /\ alive' = IF player_is_dead(p1, ms1) THEN FALSE ELSE alive
           /\ collected' = collected \cup newly
           /\ collected_count' = count1
           /\ won' = IF count1 >= WinTarget THEN TRUE ELSE won
           /\ since_search' =
                AsList([ i \in 1..Len(upd) |->
                    IF upd[i].searched THEN 0
                    ELSE IF since_search[i] < 0 THEN -1
                    ELSE since_search[i] + dt ])
           /\ search_gap' =
                AsList([ i \in 1..Len(upd) |->
                    IF upd[i].searched /\ since_search[i] >= 0
                    THEN since_search[i] + dt
                    ELSE -1 ])
    /\ ticks' = ticks + 1
    /\ pc' = NextPc(pc)
    /\ UNCHANGED << depth_buffer, blits, probe >>

\* A frame of a running session.
Tick ==
    /\ pc = "update"
    /\ Running(alive, won)
    /\ ticks < MaxTicks
    /\ \E ks \in KeySets :
       \E dt \in { IF ticks < MaxInputTicks THEN InputMs ELSE FrameMs } :
        /\ ticks >= MaxInputTicks => ks = {}
        /\ Frame(ks, dt)

\* A frame of an ended session with R down: reset_state().
Respawn ==
    /\ pc = "update"
    /\ ~Running(alive, won)
    /\ \E dt \in { InputMs, FrameMs }, ks \in KeySets :
        /\ "r" \in ks
        /\ keys' = ks
        /\ delta_time' = dt
    /\ player' = spawn_player
    /\ monsters' = spawn_monsters
    /\ collected' = {}
    /\ collected_count' = 0
    /\ alive' = TRUE
    /\ won' = FALSE
    /\ ticks' = 0
    /\ since_search' = NoSearch
    /\ search_gap' = NoSearch
    /\ pc' = NextPc(pc)
    /\ UNCHANGED << depth_buffer, blits, probe >>

\* A frame of an ended session without R.
Halt ==
    /\ pc = "update"
    /\ ~Running(alive, won)
    /\ \E dt \in { InputMs, FrameMs }, ks \in KeySets :
        /\ "r" \notin ks
        /\ keys' = ks
        /\ delta_time' = dt
    /\ pc' = NextPc(pc)
    /\ UNCHANGED << player, monsters, collected, collected_count, alive, won,
                    ticks, since_search, search_gap, depth_buffer, blits,
                    probe >>

\* screen.fill and depth_buffer = cast_rays(screen, player).
CastRays ==
    /\ pc = "cast_rays"
    /\ depth_buffer' = cast_rays(player)
    /\ blits' = {}
    /\ pc' = NextPc(pc)
    /\ UNCHANGED << player, monsters, collected, collected_count, alive, won,
                    keys, delta_time, ticks, since_search, search_gap, probe >>

DrawCollectibles ==
    /\ pc = "draw_collectibles"
    /\ blits' = blits \cup draw_collectibles(player, collected, depth_buffer)
    /\ pc' = NextPc(pc)
    /\ UNCHANGED << player, monsters, collected, collected_count, alive, won,
                    keys, delta_time, ticks, since_search, search_gap,
                    depth_buffer, probe >>

DrawMonsters ==
    /\ pc = "draw_monsters"
    /\ blits' = blits \cup draw_monsters(player, monsters, depth_buffer)
    /\ pc' = NextPc(pc)
    /\ UNCHANGED << player, monsters, collected, collected_count, alive, won,
                    keys, delta_time, ticks, since_search, search_gap,
                    depth_buffer, probe >>

Init == GameInit /\ probe = [ done |-> TRUE ]

Next ==
    \/ Tick
    \/ Respawn
    \/ Halt
    \/ CastRays
    \/ DrawCollectibles
    \/ DrawMonsters

Spec == Init /\ [][Next]_vars

----------------------------------------------------------------------------
(* astar_path on its own: every start and goal of the grid and its rim *)

AstarCells == ((-1)..MAP_WIDTH) \X ((-1)..MAP_HEIGHT)

\* Starts that are no open cell: outside the grid, a corner, inner walls.
BlockedStarts ==
    { << -1, -1 >>, << 0, 0 >>, << 2, 3 >>, << 10, 9 >>, << 20, 18 >>,
      << 21, 9 >> }

AstarStarts ==
    { c \in AstarCells : ~grid_blocked(c[1], c[2]) \/ c \in BlockedStarts }

AstarInit ==
    /\ GameInit
    /\ probe \in [ start : AstarStarts, goal : AstarCells,
                   path : { << >> }, done : { FALSE } ]

AstarCall ==
    /\ ~probe.done
    /\ probe' = [ probe EXCEPT !.path = astar_path(probe.start, probe.goal),
                               !.done = TRUE ]
    /\ UNCHANGED game_vars

AstarNext == AstarCall

SpecAstar == AstarInit /\ [][AstarNext]_vars

----------------------------------------------------------------------------
(* Reference for the planner: breadth-first search, by layers *)

OpenNeighbors(c) ==
    { n \in { <<c[1] + 1, c[2]>>, <<c[1] - 1, c[2]>>,
              <<c[1], c[2] + 1>>, <<c[1], c[2] - 1>> } :
        ~grid_blocked(n[1], n[2]) }

\* dist maps every cell found so far to its number of moves from the start.
RECURSIVE BfsLayers(_, _, _)
BfsLayers(frontier, dist, d) ==
    LET next == (UNION { OpenNeighbors(c) : c \in frontier }) \ DOMAIN dist
    IN  IF next = {} THEN dist
        ELSE BfsLayers(next, [ c \in next |-> d + 1 ] @@ dist, d + 1)

BfsFrom(start) == BfsLayers({start}, (start :> 0), 0)

\* The table of all starts under test, computed once.
BfsTable == << >> @@ [ c \in AstarStarts |-> BfsFrom(c) ]

BfsDist(start) == BfsTable[start]

Adjacent4(a, b) == Abs(a[1] - b[1]) + Abs(a[2] - b[2]) = 1

\* p runs from start to goal by 4-adjacent steps over open cells only.
IsOpenPath(p, start, goal) ==
    /\ Len(p) >= 1
    /\ p[1] = start
    /\ p[Len(p)] = goal
    /\ \A i \in 1..Len(p) : ~grid_blocked(p[i][1], p[i][2])
    /\ \A i \in 1..(Len(p) - 1) : Adjacent4(p[i], p[i + 1])

\* C1: for open start and goal with the goal reachable from the start,
\* astar_path returns an open 4-connected path from start to goal whose number
\* of cells is the breadth-first shortest one.
C1_AstarShortest ==
    LET dist == BfsDist(probe.start)
    IN  ( /\ probe.done
          /\ ~grid_blocked(probe.start[1], probe.start[2])
          /\ ~grid_blocked(probe.goal[1], probe.goal[2])
          /\ probe.goal \in DOMAIN dist )
        => /\ IsOpenPath(probe.path, probe.start, probe.goal)
           /\ Len(probe.path) = dist[probe.goal] + 1

\* The pursuer's spawn cell to the player's: 42 moves around the maze.
C1_Witness ==
    /\ probe.done
    /\ probe.start = << 15, 9 >>
    /\ probe.goal = << 3, 3 >>
    /\ Len(probe.path) = 43

\* C2 as stated: an empty path for every blocking or unreachable goal, the
\* case start = goal included.
C2_EmptyAlways ==
    ( /\ probe.done
      /\ \/ grid_blocked(probe.goal[1], probe.goal[2])
         \/ probe.goal \notin DOMAIN BfsDist(probe.start) )
    => probe.path = << >>

\* C2 (amended): for start # goal astar_path returns the empty path whenever
\* the goal is blocking or cannot be reached from the start by 4-connected
\* moves into open cells; for start = goal it returns the one-cell path
\* [start], also when that cell is blocking.
C2_EmptyUnlessSame ==
    probe.done =>
        /\ ( ( /\ probe.start # probe.goal
               /\ \/ grid_blocked(probe.goal[1], probe.goal[2])
                  \/ probe.goal \notin DOMAIN BfsDist(probe.start) )
             => probe.path = << >> )
        /\ ( probe.start = probe.goal => probe.path = << probe.start >> )

\* An open goal that a walled-in start cannot reach, and a blocking goal.
C2_Witness ==
    /\ probe.done
    /\ probe.start = << 0, 0 >>
    /\ probe.goal = << 3, 3 >>
    /\ probe.goal \notin DOMAIN BfsDist(probe.start)
    /\ probe.path = << >>

----------------------------------------------------------------------------
(* move_entity on its own: any sequence of calls from an open tile's centre *)

\* The displacements of one call, per axis: none, a quarter tile and a tile
\* and a quarter, either way.
MoveDeltas == { -1250, -250, 0, 250, 1250 }

MoveStarts == { << PelletX(t), PelletY(t) >> : t \in spawn_pellets }

MoveInit ==
    /\ GameInit
    /\ \E start \in MoveStarts :
        probe = [ x |-> start[1], y |-> start[2],
                  from_x |-> start[1], from_y |-> start[2],
                  move_x |-> 0, move_y |-> 0, called |-> FALSE ]

MoveCall ==
    /\ \E move_x \in MoveDeltas, move_y \in MoveDeltas :
       \E pos \in { move_entity(probe.x, probe.y, move_x, move_y) } :
        probe' = [ x |-> pos[1], y |-> pos[2],
                   from_x |-> probe.x, from_y |-> probe.y,
                   move_x |-> move_x, move_y |-> move_y, called |-> TRUE ]
    /\ UNCHANGED game_vars

MoveNext == MoveCall

SpecMove == MoveInit /\ [][MoveNext]_vars

\* C3: from a position that is not blocking, no sequence of move_entity calls,
\* whatever the displacements, ends in a position that is blocking.
C3_NeverBlocking == ~is_blocking(probe.x, probe.y)

\* A diagonal call whose destination is blocking, resolved by keeping one axis:
\* the entity moved, and not to the destination.
C3_Witness ==
    /\ probe.called
    /\ probe.move_x # 0
    /\ probe.move_y # 0
    /\ is_blocking(probe.from_x + probe.move_x, probe.from_y + probe.move_y)
    /\ << probe.x, probe.y >> # << probe.from_x, probe.from_y >>
    /\ ~is_blocking(probe.x, probe.y)

----------------------------------------------------------------------------
(* Claims on the frame: compositing and the depth buffer *)

\* The camera-space depth of the sprite of a blitted column, from the pose.
SpriteDepth(b) ==
    IF b.kind = "monster"
    THEN Project(player, monsters[b.id].x, monsters[b.id].y).transform_y
    ELSE Project(player, PelletX(b.id), PelletY(b.id)).transform_y

\* A buffer in which no wall is nearer than any sprite.
OpenBuffer == AsList([ c \in 1..SCREEN_WIDTH |-> INF ])

\* C4: every sprite column on the frame is a screen column whose depth-buffer
\* value is strictly greater than the depth of its sprite, that depth is
\* positive, and the sprite is no collected pellet.
C4_DepthTested ==
    pc # "cast_rays" =>
        \A b \in blits :
            /\ 0 <= b.stripe /\ b.stripe < SCREEN_WIDTH
            /\ depth_buffer[b.stripe + 1] > SpriteDepth(b)
            /\ SpriteDepth(b) > 0
            /\ b.depth = SpriteDepth(b)
            /\ b.kind = "pellet" => b.id \notin collected

\* A finished frame with a pellet column drawn, and a column of another pellet
\* in front of the camera withheld because the wall there is not farther.
C4_Witness ==
    /\ pc = "update"
    /\ ticks > 0
    /\ \E b \in blits : b.kind = "pellet"
    /\ \E pellet \in spawn_pellets \ collected :
       \E stripe \in SpriteStripes(
                        Project(player, PelletX(pellet), PelletY(pellet)),
                        PELLET_SIZE, OpenBuffer) :
            /\ depth_buffer[stripe + 1]
                 <= Project(player, PelletX(pellet), PelletY(pellet)).transform_y
            /\ ~ \E b \in blits : b.id = pellet /\ b.stripe = stripe

\* C8: the depth buffer the sprites are composited against has SCREEN_WIDTH
\* entries and each is what a ray cast from the player's pose of this frame
\* yields for its column; nothing of an earlier frame's buffer is left in it.
C8_FreshDepthBuffer ==
    pc \in { "draw_collectibles", "draw_monsters" } =>
        /\ Len(depth_buffer) = SCREEN_WIDTH
        /\ \A column \in 0..(SCREEN_WIDTH - 1) :
             depth_buffer[column + 1] = ColumnDepth(player, column)

\* Compositing in a frame whose pose differs from the frame before, with a
\* buffer that differs from the one cast at the spawn pose.
C8_Witness ==
    /\ pc = "draw_monsters"
    /\ ticks >= 2
    /\ player # spawn_player
    /\ depth_buffer # cast_rays(spawn_player)
    /\ depth_buffer = cast_rays(player)

----------------------------------------------------------------------------
(* Claims on the session: pursuit, collection, ALIVE / DEAD / WON *)

\* The grid cell of the player and of monster i.
PlayerCell == << CellOf(player.x), CellOf(player.y) >>

MonsterCell(i) == << CellOf(monsters[i].x), CellOf(monsters[i].y) >>

\* C5 as stated: whenever a tick runs astar_path for a pursuer that has run it
\* before, at least 0.4 s of delta_time have accumulated since that run.
C5_SearchGap ==
    \A i \in 1..Len(monsters) :
        search_gap[i] = -1 \/ search_gap[i] >= PATH_COOLDOWN

\* C5 (amended): a tick runs astar_path for a pursuer exactly when the pursuer
\* has not searched yet, or 0.4 s of delta_time have accumulated since its
\* last search, or its cached path is empty, does not end at the cell the
\* player is in now, or does not contain the pursuer's own cell; only in the
\* three cases of a stale path are two searches less than 0.4 s apart.
C5_ThrottledUnlessStale ==
    [][ ticks' = ticks + 1 =>
          \A i \in 1..Len(monsters) :
              ( since_search'[i] = 0 ) <=>
                  ( \/ since_search[i] < 0
                    \/ since_search[i] + delta_time' >= PATH_COOLDOWN
                    \/ monsters[i].path = << >>
                    \/ Last(monsters[i].path)
                         # << CellOf(player'.x), CellOf(player'.y) >>
                    \/ ~InPath(MonsterCell(i), monsters[i].path) )
      ]_vars

\* A search less than 0.4 s after the one before: the player changed cell.
C5_Witness ==
    /\ search_gap[1] >= 0
    /\ search_gap[1] < PATH_COOLDOWN
    /\ PlayerCell # << CellOf(spawn_player.x), CellOf(spawn_player.y) >>
    /\ Last(monsters[1].path) = PlayerCell

\* C9: every pursuer's path is empty or ends at the cell the player is in; with
\* the player in cell (3,3) it is non-empty and ends at (3,3) from the first
\* update on.
C9_PathEndsAtPlayer ==
    \A i \in 1..Len(monsters) :
        /\ \/ monsters[i].path = << >>
           \/ Last(monsters[i].path) = PlayerCell
        /\ ( ticks >= 1 /\ PlayerCell = << 3, 3 >> )
           => ( /\ monsters[i].path # << >>
                /\ Last(monsters[i].path) = << 3, 3 >> )

\* The reference run: the player has not moved from the spawn, the pursuer
\* from (15,9) is on its way and its path ends at (3,3).
C9_Witness ==
    /\ ticks >= 3
    /\ player = spawn_player
    /\ MonsterCell(1) # << 15, 9 >>
    /\ Len(monsters[1].path) >= 2
    /\ Last(monsters[1].path) = << 3, 3 >>

\* C10 as stated: a non-empty path begins at the cell the pursuer is in.
C10_FirstIsCurrent ==
    \A i \in 1..Len(monsters) :
        monsters[i].path # << >> => monsters[i].path[1] = MonsterCell(i)

\* The state reset_state() reinitializes and a terminal session must keep.
core_vars == << player, monsters, collected, collected_count, alive, won >>

WithinReach(p, pellet) ==
    Hypot(p.x - PelletX(pellet), p.y - PelletY(pellet)) < PELLET_RADIUS

\* C7: in a tick a pellet's flag is set afterwards exactly if it was set
\* before or the player, where the keys of the tick have moved it, is less than
\* 0.35 from the pellet's centre; no other step changes a flag, except that
\* reset_state() replaces all pellets by new, uncollected ones.
C7_CollectedExactly ==
    [][ \A pellet \in spawn_pellets :
          /\ ( ticks' = ticks + 1 )
             => ( ( pellet \in collected' )
                    <=> ( pellet \in collected \/ WithinReach(player', pellet) ) )
          /\ ( /\ ticks' # ticks + 1
               /\ ~( ( ~alive \/ won ) /\ pc = "update" /\ "r" \in keys' ) )
             => ( ( pellet \in collected' ) <=> ( pellet \in collected ) )
      ]_vars

\* The pellet of the next tile is collected while the player, in that tile, is
\* a quarter tile from its centre; the first pellet stays collected.
C7_Witness ==
    /\ { << 3, 3 >>, << 4, 3 >> } \subseteq collected
    /\ collected_count = 2
    /\ player.x = 4250
    /\ player.y = 3500

----------------------------------------------------------------------------
(* Claims on move_entity: the two axes *)

\* C11: the x returned is x + move_x exactly if (x + move_x, y) is not
\* blocking, else the x given; the y returned is y + move_y exactly if
\* (returned x, y + move_y) is not blocking, else the y given.  A diagonal move
\* blocked on one axis keeps the whole displacement of the other.
C11_AxesIndependent ==
    probe.called =>
        /\ probe.x = IF ~is_blocking(probe.from_x + probe.move_x, probe.from_y)
                     THEN probe.from_x + probe.move_x
                     ELSE probe.from_x
        /\ probe.y = IF ~is_blocking(probe.x, probe.from_y + probe.move_y)
                     THEN probe.from_y + probe.move_y
                     ELSE probe.from_y
        /\ ( probe.x = probe.from_x + probe.move_x )
             <=> ~is_blocking(probe.from_x + probe.move_x, probe.from_y)
        /\ ( probe.y = probe.from_y + probe.move_y )
             <=> ~is_blocking(probe.x, probe.from_y + probe.move_y)

\* A slide: a diagonal move of a tile and a quarter each way whose x axis runs
\* into a wall; x is kept and y takes the whole displacement.
C11_Witness ==
    /\ probe.called
    /\ Abs(probe.move_x) = 1250
    /\ Abs(probe.move_y) = 1250
    /\ is_blocking(probe.from_x + probe.move_x, probe.from_y)
    /\ probe.x = probe.from_x
    /\ probe.y = probe.from_y + probe.move_y

----------------------------------------------------------------------------
(* cast_rays on its own: one column's ray from a pose of the grid *)

\* The turns rotate_player is given, and the headings up to two turns from
\* the spawn heading.
RayAngles == { a : a \in DOMAIN TrigTable } \cup { -a : a \in DOMAIN TrigTable }

RayTurns(ps) == ps \cup { rotate_player(p, a) : p \in ps, a \in RayAngles }

RayHeadings == RayTurns(RayTurns({ spawn_player }))

\* Positions in a tile: on its near edge, a quarter and three quarters in.
RayOffsets == { 0, 250, 750 }

\* Border wall tiles, for rays that leave the grid.
RayWallTiles == { << 0, 3 >>, << 20, 9 >>, << 10, 0 >>, << 10, 18 >> }

RayPoses ==
    { [ h EXCEPT !.x = t[1] * ONE + ox, !.y = t[2] * ONE + oy ] :
        h \in RayHeadings, t \in spawn_pellets \cup RayWallTiles,
        ox \in RayOffsets, oy \in RayOffsets }

\* ray_dir_x, ray_dir_y of a column.
RayDir(p, column) ==
    LET camera_x == Trunc(2 * ONE * column, SCREEN_WIDTH) - ONE
    IN  << p.dir_x + FMul(p.plane_x, camera_x),
           p.dir_y + FMul(p.plane_y, camera_x) >>

RayInit ==
    /\ GameInit
    /\ \E pose \in RayPoses :
        probe = [ pose |-> pose, column |-> 0, done |-> FALSE ]

RayCall ==
    /\ ~probe.done
    /\ \E column \in 0..(SCREEN_WIDTH - 1) :
        probe' = [ pose |-> probe.pose,
                   column |-> column,
                   st |-> CastColumn(probe.pose, column),
                   depth |-> ColumnDepth(probe.pose, column),
                   done |-> TRUE ]
    /\ UNCHANGED game_vars

RayNext == RayCall

SpecRay == RayInit /\ [][RayNext]_vars

\* The ray's last cell lies outside the grid.
RayLeftGrid(st) ==
    \/ st.map_x < 0 \/ st.map_x >= MAP_WIDTH
    \/ st.map_y < 0 \/ st.map_y >= MAP_HEIGHT

\* C12: from a pose in an open cell of the grid and with a ray direction that
\* is not zero, the loop of a column ends with a hit after at most
\* MAP_WIDTH * MAP_HEIGHT steps and the column's depth is finite and at least
\* the clamp; and from any pose a ray that steps out of the grid has hit, with
\* material 1.
C12_RayHits ==
    ( probe.done /\ RayDir(probe.pose, probe.column) # << 0, 0 >> ) =>
        /\ ~is_blocking(probe.pose.x, probe.pose.y) =>
              /\ probe.st.hit
              /\ probe.st.steps >= 1
              /\ probe.st.steps <= MAP_WIDTH * MAP_HEIGHT
              /\ ~RayLeftGrid(probe.st)
              /\ probe.depth < INF
              /\ probe.depth >= MIN_WALL_DIST
        /\ RayLeftGrid(probe.st) => ( probe.st.hit /\ probe.st.tile = 1 )

\* From an open cell, a ray along the y axis (its x component is zero, its x
\* step distance infinite) that crosses open cells and ends on a wall.
C12_Witness ==
    /\ probe.done
    /\ ~is_blocking(probe.pose.x, probe.pose.y)
    /\ RayDir(probe.pose, probe.column)[1] = 0
    /\ probe.st.delta_dist_x = INF
    /\ probe.st.hit
    /\ probe.st.steps >= 3
    /\ probe.depth < INF

----------------------------------------------------------------------------
(* A session played along a route: the player collects pellets ahead of the
   pursuer until one is missing for the win, waits beside it, and takes it. *)

\* The key held in each frame of the route, "-" for none: from the spawn
\* through 90 pellets to a place half a tile from an uncollected one.
RouteKeys ==
    << "-", "s", "s", "s", "e", "e", "e", "e", "s", "s", "q", "q",
       "q", "q", "q", "q", "q", "q", "w", "w", "w", "w", "w", "w",
       "w", "w", "e", "e", "e", "e", "e", "e", "e", "e", "e", "e",
       "e", "e", "e", "e", "e", "e", "e", "e", "e", "e", "e", "e",
       "e", "e", "e", "e", "e", "e", "e", "e", "e", "e", "s", "s",
       "s", "q", "q", "q", "q", "s", "s", "s", "s", "s", "s", "s",
       "s", "s", "s", "s", "s", "s", "e", "e", "e", "e", "w", "w",
       "w", "w", "w", "w", "w", "w", "w", "w", "s", "s", "s", "s",
       "s", "s", "s", "s", "s", "s", "q", "q", "q", "w", "w", "q",
       "q", "q", "q", "q", "q", "q", "q", "q", "w", "w", "w", "e",
       "e", "e", "e", "w", "w", "w", "w", "w", "w", "w", "w", "q",
       "q", "q", "q", "q", "q", "q", "q", "s", "s", "s", "e", "e",
       "e", "e", "s", "s", "q", "q", "q", "q", "q", "q", "q", "q",
       "w", "w", "w", "w", "w", "q", "q", "q" >>

RouteKeySet(k) == IF k = "-" THEN {} ELSE { k }

\* After the route the player waits, for at most MaxWaitTicks frames, and may
\* in any of them strafe onto the pellet.
MaxWaitTicks == 30

RouteChoices(at) ==
    IF at < Len(RouteKeys)
    THEN { RouteKeySet(RouteKeys[at + 1]) }
    ELSE { {}, { "q" } }

\* A frame of a running session on the route, at the input frame time.
RouteTick ==
    /\ pc = "update"
    /\ Running(alive, won)
    /\ ticks < Len(RouteKeys) + MaxWaitTicks
    /\ \E ks \in RouteChoices(ticks) : Frame(ks, InputMs)

RouteNext ==
    \/ RouteTick
    \/ Respawn
    \/ Halt
    \/ CastRays
    \/ DrawCollectibles
    \/ DrawMonsters

SpecRoute == Init /\ [][RouteNext]_vars

\* C13 as stated: alive = false and won = true never hold together.
C13_ExactlyOne == ~( ~alive /\ won )

====
